---- MODULE Spec2Model ----
(***************************************************************************)
(* Model of the multi-select prompt of src/src/prompts/multiselect.rs:     *)
(* MultiSelect (the configuration), MultiSelectPrompt (the session) and    *)
(* the render / read-key / apply loop of MultiSelectPrompt::prompt.        *)
(*                                                                         *)
(* Indices are 0-based as in the source; TLA+ sequences are 1-based, so    *)
(* the option with original index i is options[i + 1].                     *)
(* Option<T> is a sequence of length 0 (None) or 1 (Some).                 *)
(***************************************************************************)
EXTENDS Integers, Sequences, FiniteSets, TLC

\* Longest filter text the editing buffer is driven to.
MaxLen == 1

None == <<>>
Some(x) == <<x>>
IsSome(o) == o # <<>>
Unwrap(o) == o[1]

Range(s) == { s[i] : i \in 1..Len(s) }

---------------------------------------------------------------------------
(* Inputs: option lists, keys, strategies.                                 *)

\* Labels of the options the prompts are built over (each a sequence of
\* characters).
Labels == << <<"j">>, <<"K", "j">>, <<"k", " ">> >>

\* The option lists handed to MultiSelect::new: the empty list and every
\* non-empty prefix of Labels.
OptionLists == { SubSeq(Labels, 1, n) : n \in 0..Len(Labels) }

\* Characters the key source delivers.
Chars == {"j", "k", " "}

\* KeyModifiers: NONE and one representative non-empty modifier set.
KeyModifiers == {"NONE", "SHIFT"}

Key(kind, c, m) == [kind |-> kind, c |-> c, m |-> m]

Keys ==
    { Key(k, "", m) : k \in {"Up", "Down", "Left", "Right"}, m \in KeyModifiers }
    \cup { Key("Char", c, m) : c \in Chars, m \in KeyModifiers }
    \cup { Key("Backspace", "", "NONE"), Key("Submit", "", "NONE"),
           Key("Cancel", "", "NONE") }

NoKey == Key("NoKey", "", "NONE")
SubmitKey == Key("Submit", "", "NONE")
CancelKey == Key("Cancel", "", "NONE")

\* The validators a prompt is configured with: none, or one that accepts
\* exactly one selected option and has a message for each way of failing.
Validators == {None, Some("exactly_one")}

validator(v, answer) ==
    IF Len(answer) = 0 THEN <<"Err", "no option selected">>
    ELSE IF Len(answer) > 1 THEN <<"Err", "too many options selected">>
    ELSE <<"Ok">>

\* Default indexes: none given, or one index (in or out of range of the
\* option list).
Defaults(options) ==
    {None} \cup { Some(<<i>>) : i \in 0..Len(options) }

---------------------------------------------------------------------------
(* Collaborators outside this file.                                        *)

to_lowercase(c) ==
    CASE c = "J" -> "j"
      [] c = "K" -> "k"
      [] OTHER -> c

lower(s) == [i \in 1..Len(s) |-> to_lowercase(s[i])]

contains(hay, needle) ==
    \E i \in 0..(Len(hay) - Len(needle)) :
        SubSeq(hay, i + 1, i + Len(needle)) = needle

\* config::DEFAULT_FILTER: case-insensitive substring match on the label.
DEFAULT_FILTER(val, opt, i) == contains(lower(opt), lower(val))

\* Input::handle_key: the content after the key.  Characters are inserted,
\* Backspace deletes, every other key leaves the content alone.
input_handle_key(content, key) ==
    CASE key.kind = "Char" -> Append(content, key.c)
      [] key.kind = "Backspace" /\ Len(content) > 0 ->
            SubSeq(content, 1, Len(content) - 1)
      [] OTHER -> content

\* formatter::DEFAULT_MULTI_OPTION_FORMATTER: the labels of the answer, in
\* order (joined with a comma).
DEFAULT_MULTI_OPTION_FORMATTER(answer) ==
    [i \in 1..Len(answer) |-> answer[i].value]

---------------------------------------------------------------------------
(* State.                                                                  *)

VARIABLES
    mso,              \* the MultiSelect configuration
    pc,               \* position in prompt_with_backend / prompt
    cursor_index,     \* MultiSelectPrompt fields
    checked,
    input,
    filtered_options,
    error,
    final_answer,     \* local of prompt()
    last_key,         \* local `key` of the loop body of prompt()
    validator_ran,    \* the validator ran while last_key was handled
    last_call,        \* latest backend call made
    finish_calls,     \* number of finish_prompt calls made
    finished_with,    \* the formatted text handed to finish_prompt
    toggled_from,     \* history: the checked sets before each of the latest
                      \* (at most two) toggle keys pressed in a row
    outcome,          \* how prompt_with_backend returned
    result            \* the value it returned, if any

vars == << mso, pc, cursor_index, checked, input, filtered_options, error,
           final_answer, last_key, validator_ran, last_call, finish_calls,
           finished_with, toggled_from, outcome, result >>

prompt_fields == << cursor_index, checked, input, filtered_options, error >>

N == Len(mso.options)

OptionAnswer(idx, opt) == [index |-> idx, value |-> opt]

---------------------------------------------------------------------------
(* MultiSelectPrompt::new                                                  *)

\* Off-by-one bound check: an index equal to the length passes.
default_out_of_bounds_off_by_one(m) ==
    /\ IsSome(m.default)
    /\ \E k \in 1..Len(Unwrap(m.default)) :
           Unwrap(m.default)[k] > Len(m.options)

default_out_of_bounds(m) ==
    /\ IsSome(m.default)
    /\ \E k \in 1..Len(Unwrap(m.default)) :
           Unwrap(m.default)[k] >= Len(m.options)

new_result(m) ==
    IF Len(m.options) = 0 THEN <<"Err", "InvalidConfiguration">>
    ELSE IF default_out_of_bounds(m) THEN <<"Err", "InvalidConfiguration">>
    ELSE <<"Ok">>

new_checked(m) ==
    IF IsSome(m.default) THEN Range(Unwrap(m.default)) ELSE {}

\* The object is dropped when prompt_with_backend returns.
Dropped ==
    /\ cursor_index' = 0
    /\ checked' = {}
    /\ input' = <<>>
    /\ filtered_options' = <<>>
    /\ error' = None
    /\ toggled_from' = <<>>

New ==
    /\ pc = "new"
    /\ IF new_result(mso)[1] = "Err"
       THEN /\ pc' = "done"
            /\ outcome' = new_result(mso)[2]
            /\ UNCHANGED << prompt_fields, toggled_from >>
       ELSE /\ pc' = "render"
            /\ cursor_index' = mso.starting_cursor
            /\ input' = <<>>
            /\ filtered_options' = [k \in 1..Len(mso.options) |-> k - 1]
            /\ error' = None
            /\ checked' = new_checked(mso)
            /\ UNCHANGED << outcome, toggled_from >>
    /\ UNCHANGED << mso, final_answer, last_key, validator_ran, last_call,
                    finish_calls, finished_with, result >>

---------------------------------------------------------------------------
(* filter_options, cursor movement, toggling                               *)

RECURSIVE filter_from(_, _, _)
filter_from(options, content, i) ==
    IF i >= Len(options) THEN <<>>
    ELSE (IF Len(content) = 0 THEN <<i>>
          ELSE IF DEFAULT_FILTER(content, options[i + 1], i) THEN <<i>>
          ELSE <<>>) \o filter_from(options, content, i + 1)

filter_options(options, content) == filter_from(options, content, 0)

move_cursor_up(ci, fo) ==
    IF ci >= 1 THEN ci - 1
    ELSE IF Len(fo) >= 1 THEN Len(fo) - 1
    ELSE 0

\* saturating_add never saturates below usize::MAX, which no cursor reaches.
move_cursor_down(ci, fo) ==
    IF ci + 1 >= Len(fo) THEN 0 ELSE ci + 1

\* A toggle that only ever inserts.
toggle_checked_insert_only(ch, idx) == ch \cup {idx}

toggle_checked(ch, idx) ==
    IF idx \in ch THEN ch \ {idx} ELSE ch \cup {idx}

clear_after_selection(content, keep_filter) ==
    IF ~keep_filter THEN <<>> ELSE content

\* A toggle that takes the cursor position for the original index.
toggle_cursor_as_index ==
    IF cursor_index < Len(filtered_options)
    THEN /\ checked' = toggle_checked(checked, cursor_index)
         /\ input' = clear_after_selection(input, mso.keep_filter)
         /\ UNCHANGED << cursor_index, filtered_options >>
    ELSE UNCHANGED << cursor_index, checked, input, filtered_options >>

toggle_cursor_selection ==
    IF cursor_index < Len(filtered_options)
    THEN /\ checked' = toggle_checked(checked, filtered_options[cursor_index + 1])
         /\ input' = clear_after_selection(input, mso.keep_filter)
         /\ UNCHANGED << cursor_index, filtered_options >>
    ELSE UNCHANGED << cursor_index, checked, input, filtered_options >>

\* Select-all without clearing the checked set first.
select_all_without_clear(fo) == checked \cup Range(fo)

select_all(fo) == Range(fo)

\* No clamp after the filter is recomputed.
clamp_cursor_missing(ci, options) == ci

clamp_cursor(ci, options) ==
    IF Len(options) > 0 /\ Len(options) <= ci
    THEN (IF Len(options) >= 1 THEN Len(options) - 1 ELSE 0)
    ELSE ci

\* Dispatch that ignores the modifiers of the selection keys.
arm_ignoring_modifiers(key) ==
    CASE key.kind = "Up" /\ key.m = "NONE" -> "up"
      [] key.kind = "Char" /\ key.c = "k" /\ key.m = "NONE" /\ mso.vim_mode -> "up"
      [] key.kind = "Down" /\ key.m = "NONE" -> "down"
      [] key.kind = "Char" /\ key.c = "j" /\ key.m = "NONE" /\ mso.vim_mode -> "down"
      [] key.kind = "Char" /\ key.c = " " -> "toggle"
      [] key.kind = "Right" -> "all"
      [] key.kind = "Left" -> "none"
      [] OTHER -> "input"

\* The match arm on_change takes for a key.
\* Dispatch that takes j and k for navigation whatever the vim flag.
arm_vim_always(key) ==
    CASE key.kind = "Up" /\ key.m = "NONE" -> "up"
      [] key.kind = "Char" /\ key.c = "k" /\ key.m = "NONE" -> "up"
      [] key.kind = "Down" /\ key.m = "NONE" -> "down"
      [] key.kind = "Char" /\ key.c = "j" /\ key.m = "NONE" -> "down"
      [] key.kind = "Char" /\ key.c = " " /\ key.m = "NONE" -> "toggle"
      [] key.kind = "Right" /\ key.m = "NONE" -> "all"
      [] key.kind = "Left" /\ key.m = "NONE" -> "none"
      [] OTHER -> "input"

arm(key) ==
    CASE key.kind = "Up" /\ key.m = "NONE" -> "up"
      [] key.kind = "Char" /\ key.c = "k" /\ key.m = "NONE" /\ mso.vim_mode -> "up"
      [] key.kind = "Down" /\ key.m = "NONE" -> "down"
      [] key.kind = "Char" /\ key.c = "j" /\ key.m = "NONE" /\ mso.vim_mode -> "down"
      [] key.kind = "Char" /\ key.c = " " /\ key.m = "NONE" -> "toggle"
      [] key.kind = "Right" /\ key.m = "NONE" -> "all"
      [] key.kind = "Left" /\ key.m = "NONE" -> "none"
      [] OTHER -> "input"

on_change(key) ==
    CASE arm(key) = "up" ->
            /\ cursor_index' = move_cursor_up(cursor_index, filtered_options)
            /\ UNCHANGED << checked, input, filtered_options >>
      [] arm(key) = "down" ->
            /\ cursor_index' = move_cursor_down(cursor_index, filtered_options)
            /\ UNCHANGED << checked, input, filtered_options >>
      [] arm(key) = "toggle" -> toggle_cursor_selection
      [] arm(key) = "all" ->
            /\ checked' = select_all(filtered_options)
            /\ input' = clear_after_selection(input, mso.keep_filter)
            /\ UNCHANGED << cursor_index, filtered_options >>
      [] arm(key) = "none" ->
            /\ checked' = {}
            /\ input' = clear_after_selection(input, mso.keep_filter)
            /\ UNCHANGED << cursor_index, filtered_options >>
      [] OTHER ->
            LET content == input_handle_key(input, key)
                dirty == content # input
                options == filter_options(mso.options, content)
            IN  /\ input' = content
                /\ IF dirty
                   THEN /\ cursor_index' = clamp_cursor(cursor_index, options)
                        /\ filtered_options' = options
                   ELSE UNCHANGED << cursor_index, filtered_options >>
                /\ UNCHANGED checked

---------------------------------------------------------------------------
(* get_final_answer                                                        *)

RECURSIVE selected_from(_, _, _)
selected_from(options, ch, idx) ==
    IF idx >= Len(options) THEN <<>>
    ELSE (IF idx \in ch THEN << OptionAnswer(idx, options[idx + 1]) >> ELSE <<>>)
         \o selected_from(options, ch, idx + 1)

\* The answer collected in descending index order.
RECURSIVE selected_descending(_, _)
selected_descending(options, ch) ==
    IF ch = {} THEN <<>>
    ELSE LET top == CHOOSE i \in ch : \A j \in ch : j <= i
         IN  << OptionAnswer(top, options[top + 1]) >>
             \o selected_descending(options, ch \ {top})

selected_options(options, ch) == selected_from(options, ch, 0)

\* get_final_answer that never consults the validator.
get_final_answer_unvalidated ==
    <<"Ok", selected_options(mso.options, checked)>>

get_final_answer ==
    LET selected == selected_options(mso.options, checked)
    IN  IF IsSome(mso.validator)
        THEN (IF validator(Unwrap(mso.validator), selected)[1] = "Ok"
              THEN <<"Ok", selected>>
              ELSE <<"Err", validator(Unwrap(mso.validator), selected)[2]>>)
        ELSE <<"Ok", selected>>

---------------------------------------------------------------------------
(* render                                                                  *)

\* The backend calls of one frame, in order.
frame_calls ==
    <<"frame_setup">>
    \o (IF IsSome(error) THEN <<"render_error_message">> ELSE <<>>)
    \o <<"render_multiselect_prompt">>
    \o (IF Len(filtered_options) > 0 THEN <<"render_option">> ELSE <<>>)
    \o (IF IsSome(mso.help_message) THEN <<"render_help_message">> ELSE <<>>)
    \o <<"frame_finish">>

\* A failed backend call that is noted but does not end prompt().
Fails_not_returning(call) ==
    /\ last_call' = call
    /\ outcome' = "IoError"
    /\ UNCHANGED << mso, pc, prompt_fields, toggled_from, final_answer,
                    last_key, validator_ran, result >>

\* A backend call failed: prompt() returns the error.
Fails(call) ==
    /\ last_call' = call
    /\ pc' = "done"
    /\ outcome' = "IoError"
    /\ Dropped
    /\ UNCHANGED << mso, final_answer, last_key, validator_ran, result >>

\* A new loop iteration starts: the previous iteration's `key` is gone.
Render ==
    /\ pc = "render"
    /\ last_call' = "frame_finish"
    /\ last_key' = NoKey
    /\ validator_ran' = FALSE
    /\ pc' = "read_key"
    /\ UNCHANGED << mso, prompt_fields, final_answer, finish_calls,
                    finished_with, toggled_from, outcome, result >>

RenderFails ==
    /\ pc = "render"
    /\ \E k \in 1..Len(frame_calls) : Fails(frame_calls[k])
    /\ UNCHANGED << finish_calls, finished_with >>

---------------------------------------------------------------------------
(* prompt: one key read and applied                                        *)

ReadKeyFails ==
    /\ pc = "read_key"
    /\ Fails("read_key")
    /\ UNCHANGED << finish_calls, finished_with >>

\* A Cancel key that is swallowed: the loop goes on.
Cancel_swallowed ==
    /\ pc = "read_key"
    /\ last_call' = "read_key"
    /\ last_key' = CancelKey
    /\ validator_ran' = FALSE
    /\ pc' = "render"
    /\ UNCHANGED << mso, prompt_fields, final_answer, finish_calls,
                    finished_with, toggled_from, outcome, result >>

Cancel ==
    /\ pc = "read_key"
    /\ last_call' = "read_key"
    /\ last_key' = CancelKey
    /\ validator_ran' = FALSE
    /\ pc' = "done"
    /\ outcome' = "OperationCanceled"
    /\ Dropped
    /\ UNCHANGED << mso, final_answer, finish_calls, finished_with, result >>

Submit ==
    /\ pc = "read_key"
    /\ last_call' = "read_key"
    /\ last_key' = SubmitKey
    /\ validator_ran' = IsSome(mso.validator)
    /\ IF get_final_answer[1] = "Ok"
       THEN /\ final_answer' = get_final_answer[2]
            /\ pc' = "finish"
            /\ UNCHANGED error
       ELSE /\ error' = Some(get_final_answer[2])
            /\ pc' = "render"
            /\ UNCHANGED final_answer
    /\ toggled_from' = <<>>
    /\ UNCHANGED << mso, cursor_index, checked, input, filtered_options,
                    finish_calls, finished_with, outcome, result >>

\* A key press that clears the pending error.
Change_clearing_error(key) ==
    /\ pc = "read_key"
    /\ key \notin {SubmitKey, CancelKey}
    /\ (arm(key) = "input" /\ key.kind = "Char") => Len(input) < MaxLen
    /\ last_call' = "read_key"
    /\ last_key' = key
    /\ validator_ran' = FALSE
    /\ on_change(key)
    /\ toggled_from' = <<>>
    /\ error' = None
    /\ pc' = "render"
    /\ UNCHANGED << mso, final_answer, finish_calls, finished_with, outcome,
                    result >>

\* A key applied without a frame rendered before the next read.
Change_without_render(key) ==
    /\ pc = "read_key"
    /\ key \notin {SubmitKey, CancelKey}
    /\ (arm(key) = "input" /\ key.kind = "Char") => Len(input) < MaxLen
    /\ last_call' = "read_key"
    /\ last_key' = key
    /\ validator_ran' = FALSE
    /\ on_change(key)
    /\ toggled_from' = <<>>
    /\ pc' = "read_key"
    /\ UNCHANGED << mso, error, final_answer, finish_calls, finished_with,
                    outcome, result >>

Change(key) ==
    /\ pc = "read_key"
    /\ key \notin {SubmitKey, CancelKey}
    /\ (arm(key) = "input" /\ key.kind = "Char") => Len(input) < MaxLen
    /\ last_call' = "read_key"
    /\ last_key' = key
    /\ validator_ran' = FALSE
    /\ on_change(key)
    /\ toggled_from' = (IF key = Key("Char", " ", "NONE")
                        THEN (IF Len(toggled_from) = 2
                              THEN << toggled_from[2], checked >>
                              ELSE Append(toggled_from, checked))
                        ELSE <<>>)
    /\ pc' = "render"
    /\ UNCHANGED << mso, error, final_answer, finish_calls, finished_with,
                    outcome, result >>

\* The formatter named by mso.formatter.
formatter(answer) == DEFAULT_MULTI_OPTION_FORMATTER(answer)

\* The successful return without the finish_prompt call.
Finish_without_backend_call ==
    /\ pc = "finish"
    /\ pc' = "done"
    /\ outcome' = "Ok"
    /\ result' = Some(final_answer)
    /\ Dropped
    /\ UNCHANGED << mso, final_answer, last_key, validator_ran, last_call,
                    finish_calls, finished_with >>

Finish ==
    /\ pc = "finish"
    /\ last_call' = "finish_prompt"
    /\ finish_calls' = finish_calls + 1
    /\ finished_with' = Some(formatter(final_answer))
    /\ pc' = "done"
    /\ outcome' = "Ok"
    /\ result' = Some(final_answer)
    /\ Dropped
    /\ UNCHANGED << mso, final_answer, last_key, validator_ran >>

FinishFails ==
    /\ pc = "finish"
    /\ finish_calls' = finish_calls + 1
    /\ finished_with' = Some(formatter(final_answer))
    /\ Fails("finish_prompt")

---------------------------------------------------------------------------

Init ==
    /\ mso \in { [options |-> o, default |-> d, starting_cursor |-> s,
                  vim_mode |-> v, keep_filter |-> kf, validator |-> vd,
                  help_message |-> Some("help")] :
                 o \in OptionLists, d \in UNION { Defaults(x) : x \in OptionLists },
                 s \in 0..Len(Labels), v \in BOOLEAN, kf \in BOOLEAN,
                 vd \in Validators }
    /\ mso.default \in Defaults(mso.options)
    /\ mso.starting_cursor \in 0..Len(mso.options)
    /\ pc = "new"
    /\ cursor_index = 0
    /\ checked = {}
    /\ input = <<>>
    /\ filtered_options = <<>>
    /\ error = None
    /\ final_answer = <<>>
    /\ last_key = NoKey
    /\ validator_ran = FALSE
    /\ last_call = "none"
    /\ finish_calls = 0
    /\ finished_with = None
    /\ toggled_from = <<>>
    /\ outcome = "none"
    /\ result = None

Next ==
    \/ New
    \/ Render
    \/ RenderFails
    \/ ReadKeyFails
    \/ Cancel
    \/ Submit
    \/ \E key \in Keys : Change(key)
    \/ Finish
    \/ FinishFails

Spec == Init /\ [][Next]_vars

---------------------------------------------------------------------------
(* Properties.                                                             *)

\* The session object exists.
Alive == pc \in {"render", "read_key", "finish"}

FullRange == [k \in 1..N |-> k - 1]

StrictlyAscending(s) == \A a, b \in 1..Len(s) : a < b => s[a] < s[b]

IndicesOf(answer) == [k \in 1..Len(answer) |-> answer[k].index]

DefaultIndices ==
    IF IsSome(mso.default) THEN Range(Unwrap(mso.default)) ELSE {}

UpKey == Key("Up", "", "NONE")
DownKey == Key("Down", "", "NONE")
LeftKey == Key("Left", "", "NONE")
RightKey == Key("Right", "", "NONE")
SpaceKey == Key("Char", " ", "NONE")

\* A key was read and applied in this step.
KeyRead(key) == pc = "read_key" /\ last_key' = key

IsSelectionKey(key) == key \in {SpaceKey, LeftKey, RightKey}

\* C1: an accepted Submit returns the (index, label) pairs of exactly the
\* checked indices, in strictly ascending original-index order.
C1_SubmitReturnsCheckedInOriginalOrder ==
    /\ pc = "finish" =>
          /\ Range(IndicesOf(final_answer)) = checked
          /\ StrictlyAscending(IndicesOf(final_answer))
          /\ \A k \in 1..Len(final_answer) :
                final_answer[k].value = mso.options[final_answer[k].index + 1]
    /\ outcome = "Ok" =>
          /\ result = Some(final_answer)
          /\ StrictlyAscending(IndicesOf(final_answer))

\* Submit accepted with several options checked, one of them filtered out,
\* and the cursor off the first row.
C1_Witness ==
    /\ pc = "finish"
    /\ Cardinality(checked) >= 2
    /\ input # <<>>
    /\ cursor_index > 0
    /\ \E i \in checked : i \notin Range(filtered_options)

\* C2: construction fails with a configuration error before any backend
\* call when the option list is empty or a default index is >= N;
\* otherwise it succeeds with checked = the default indices, the filtered
\* list the full range, empty query text and no error.
C2_ConstructionContract ==
    LET bad == N = 0 \/ \E i \in DefaultIndices : i >= N
    IN  /\ (pc # "new" /\ bad) =>
              /\ pc = "done"
              /\ outcome = "InvalidConfiguration"
              /\ last_call = "none"
              /\ result = None
        /\ (pc # "new" /\ ~bad) => outcome # "InvalidConfiguration"
        /\ (pc = "render" /\ last_call = "none") =>
              /\ checked = DefaultIndices
              /\ filtered_options = FullRange
              /\ input = <<>>
              /\ error = None

\* Construction refused for a default index out of range of a non-empty list.
C2_Witness ==
    /\ pc = "done"
    /\ outcome = "InvalidConfiguration"
    /\ N > 0
    /\ \E i \in DefaultIndices : i >= N

\* C3: a starting cursor >= N (N > 0) makes construction fail with
\* InvalidConfiguration and no session is started.
C3_StartingCursorOutOfRangeRejected ==
    (pc # "new" /\ N > 0 /\ mso.starting_cursor >= N) =>
        /\ pc = "done"
        /\ outcome = "InvalidConfiguration"
        /\ last_call = "none"

\* C4: a Submit the validator rejects keeps the session editing, sets the
\* error to the validator's message, leaves checked set, cursor, query
\* text and filtered list as they were, and finish is not called.
C4_RejectedSubmitKeepsEditing ==
    [][ (/\ KeyRead(SubmitKey)
         /\ IsSome(mso.validator)
         /\ validator(Unwrap(mso.validator),
                      selected_options(mso.options, checked))[1] = "Err")
        => /\ pc' = "render"
           /\ error' = Some(validator(Unwrap(mso.validator),
                                      selected_options(mso.options, checked))[2])
           /\ UNCHANGED << checked, cursor_index, input, filtered_options >>
           /\ finish_calls' = 0
           /\ outcome' = "none"
           /\ result' = None ]_vars

\* A Submit rejected for too many selections while a filter text is typed.
C4_Witness ==
    /\ pc = "render"
    /\ last_key = SubmitKey
    /\ error = Some("too many options selected")
    /\ Cardinality(checked) >= 2
    /\ input # <<>>

\* C5: a Cancel key ends the session at once with the cancellation outcome
\* and no result; the validator and finish are not invoked, and no backend
\* call follows.
C5_CancelTerminatesImmediately ==
    [][ /\ KeyRead(CancelKey) =>
            /\ pc' = "done"
            /\ outcome' = "OperationCanceled"
            /\ result' = None
            /\ validator_ran' = FALSE
            /\ finish_calls' = 0
            /\ last_call' = "read_key"
        /\ outcome = "OperationCanceled" =>
            /\ last_call' = last_call
            /\ finish_calls' = finish_calls
            /\ validator_ran' = validator_ran
            /\ outcome' = outcome
            /\ result' = result ]_vars

\* Cancelled with a validator configured: it did not run, finish was not
\* called.
C5_Witness ==
    /\ pc = "done"
    /\ outcome = "OperationCanceled"
    /\ last_key = CancelKey
    /\ IsSome(mso.validator)
    /\ ~validator_ran
    /\ finish_calls = 0

\* C6: in every state of a session 0 <= cursor < max(1, len(filtered
\* list)); with an empty filtered list the cursor is 0.
C6_CursorWithinFilteredList ==
    Alive =>
        /\ 0 <= cursor_index
        /\ cursor_index < (IF Len(filtered_options) > 1
                           THEN Len(filtered_options) ELSE 1)

\* C7: the filtered list is the full range when the query is empty, and
\* otherwise exactly the ascending list of the indices whose label matches
\* the query.
C7_FilteredListMatchesQuery ==
    Alive =>
        /\ StrictlyAscending(filtered_options)
        /\ Range(filtered_options) =
              { i \in 0..(N - 1) :
                    input = <<>> \/ DEFAULT_FILTER(input, mso.options[i + 1], i) }

\* C8: every checked index is < N, and a key that is not a selection key
\* (a text-editing or navigation key), whatever it does to the filtered
\* list, leaves the checked set unchanged.
C8_CheckedValidAndIndependentOfFilter ==
    /\ [](Alive => checked \subseteq 0..(N - 1))
    /\ [][ (\E key \in Keys \ {SubmitKey, CancelKey} :
               KeyRead(key) /\ ~IsSelectionKey(key))
           => checked' = checked ]_vars

\* A typed character filtered a checked option out of the list.
C8_Witness ==
    /\ pc = "render"
    /\ last_key.kind = "Char"
    /\ input # <<>>
    /\ \E i \in checked : i \notin Range(filtered_options)

\* C9: after the select-all key the checked set is exactly the set of
\* indices in the filtered list at the time of the key.
C9_SelectAllChecksExactlyVisible ==
    [][ KeyRead(RightKey) => checked' = Range(filtered_options) ]_vars

\* Select-all under a filter that hides some option.
C9_Witness ==
    /\ pc = "render"
    /\ last_key = RightKey
    /\ mso.keep_filter
    /\ input # <<>>
    /\ Len(filtered_options) < N
    /\ checked = Range(filtered_options)

\* C10: with keep-filter disabled, a toggle (on a non-empty filtered list),
\* select-all or select-none key leaves the query text empty and the
\* filtered list recomputed to the full range.
C10_SelectionClearsFilterAndRecomputes ==
    [][ (/\ ~mso.keep_filter
         /\ \/ KeyRead(SpaceKey) /\ Len(filtered_options) > 0
            \/ KeyRead(RightKey)
            \/ KeyRead(LeftKey))
        => /\ input' = <<>>
           /\ filtered_options' = FullRange ]_vars

IsMoveUp(key) == key = UpKey \/ (mso.vim_mode /\ key = Key("Char", "k", "NONE"))
IsMoveDown(key) == key = DownKey \/ (mso.vim_mode /\ key = Key("Char", "j", "NONE"))

\* C11: over a non-empty filtered list of length L, move-up from 0 lands
\* on L-1 and otherwise decrements; move-down from L-1 lands on 0 and
\* otherwise increments.
C11_NavigationWraps ==
    [][ \A key \in Keys :
          (KeyRead(key) /\ Len(filtered_options) > 0) =>
             /\ IsMoveUp(key) =>
                   cursor_index' = (IF cursor_index = 0
                                    THEN Len(filtered_options) - 1
                                    ELSE cursor_index - 1)
             /\ IsMoveDown(key) =>
                   cursor_index' = (IF cursor_index = Len(filtered_options) - 1
                                    THEN 0
                                    ELSE cursor_index + 1) ]_vars

\* C12: pressing the toggle key twice in a row leaves the checked set as
\* it was before the first press, for both settings of keep-filter.
C12_DoubleToggleIsIdentity ==
    Len(toggled_from) = 2 => checked = toggled_from[1]

\* Two toggles in a row, the first of which changed the checked set and
\* cleared a typed filter.
C12_Witness ==
    /\ pc = "render"
    /\ last_key = SpaceKey
    /\ Len(toggled_from) = 2
    /\ toggled_from[2] # toggled_from[1]
    /\ ~mso.keep_filter
    /\ Len(filtered_options) < N

\* C13: finish is invoked at most once; exactly once on a run that ends
\* successfully, after the last key, as the last backend call, with the
\* formatter's output for the returned result; never on a run that is
\* cancelled or still editing (also with a rejection pending).
C13_FinishExactlyOnceOnSuccess ==
    /\ finish_calls <= 1
    /\ outcome = "Ok" =>
          /\ finish_calls = 1
          /\ last_call = "finish_prompt"
          /\ last_key = SubmitKey
          /\ IsSome(result)
          /\ finished_with =
                Some([k \in 1..Len(Unwrap(result)) |-> Unwrap(result)[k].value])
    /\ outcome = "OperationCanceled" => finish_calls = 0 /\ finished_with = None
    /\ pc # "done" => finish_calls = 0 /\ finished_with = None
    /\ finish_calls = 0 <=> finished_with = None

\* A successful run under a validator, returning one option.
C13_Witness ==
    /\ outcome = "Ok"
    /\ finish_calls = 1
    /\ IsSome(mso.validator)
    /\ Len(Unwrap(result)) = 1
    /\ Unwrap(finished_with) = << Unwrap(result)[1].value >>

\* A key other than Submit and Cancel was read and applied in this step.
SomeKeyRead == \E key \in Keys \ {SubmitKey, CancelKey} : KeyRead(key)

\* C14: when a text-editing key changes the query, a non-empty new
\* filtered list clamps a cursor >= its length to length-1 and leaves any
\* other cursor alone; an empty new list leaves the cursor at 0, and while
\* the list is empty move-up, move-down and toggle change neither cursor
\* nor checked set.
C14_CursorAfterFilterRecompute ==
    [][ /\ (SomeKeyRead /\ ~IsSelectionKey(last_key') /\ input' # input) =>
              IF Len(filtered_options') > 0
              THEN cursor_index' = (IF cursor_index >= Len(filtered_options')
                                    THEN Len(filtered_options') - 1
                                    ELSE cursor_index)
              ELSE cursor_index' = 0
        /\ (\E key \in Keys :
               /\ KeyRead(key)
               /\ IsMoveUp(key) \/ IsMoveDown(key) \/ key = SpaceKey
               /\ filtered_options = <<>>) =>
              UNCHANGED << cursor_index, checked >> ]_vars

\* C15: the toggle key flips the membership of exactly the original index
\* stored at the cursor position of the filtered list and leaves the
\* cursor alone; with no element at the cursor it changes nothing, also
\* with keep-filter disabled.
C15_ToggleFlipsExactlyOne ==
    [][ KeyRead(SpaceKey) =>
          IF cursor_index < Len(filtered_options)
          THEN LET idx == filtered_options[cursor_index + 1]
               IN  /\ idx \in checked' <=> idx \notin checked
                   /\ checked' \ {idx} = checked \ {idx}
                   /\ UNCHANGED << cursor_index, filtered_options >>
          ELSE UNCHANGED << checked, cursor_index, input, filtered_options >>
      ]_vars

\* A toggle under a filter, at a cursor position whose original index is
\* another number, that unchecked that index.
C15_Witness ==
    /\ pc = "render"
    /\ last_key = SpaceKey
    /\ cursor_index < Len(filtered_options)
    /\ filtered_options[cursor_index + 1] # cursor_index
    /\ Len(toggled_from) = 1
    /\ toggled_from[1] = checked \cup {filtered_options[cursor_index + 1]}
    /\ filtered_options[cursor_index + 1] \notin checked

\* C16: with a starting cursor < N, whenever the filtered list is
\* non-empty the cursor is a valid position of it.
C16_CursorAddressesAnOption ==
    (Alive /\ mso.starting_cursor < N /\ Len(filtered_options) > 0) =>
        cursor_index < Len(filtered_options)

\* The cursor on the last row of a list that a typed character made
\* shorter than the starting cursor.
C16_Witness ==
    /\ pc = "render"
    /\ last_key.kind = "Char"
    /\ input # <<>>
    /\ mso.starting_cursor < N
    /\ Len(filtered_options) > 0
    /\ Len(filtered_options) < N
    /\ mso.starting_cursor >= Len(filtered_options)
    /\ cursor_index = Len(filtered_options) - 1

\* The keys C17 says are forwarded to the editing buffer: j and k unless
\* vim navigation is on and no modifier is held, and the modified variants
\* of Up, Down, Left, Right and Space.
IsForwarded(key) ==
    \/ /\ key.kind = "Char"
       /\ key.c \in {"j", "k"}
       /\ ~(mso.vim_mode /\ key.m = "NONE")
    \/ /\ key.kind \in {"Up", "Down", "Left", "Right"}
       /\ key.m # "NONE"
    \/ /\ key.kind = "Char"
       /\ key.c = " "
       /\ key.m # "NONE"

\* C17: j and k navigate only with vim navigation on and no modifier;
\* Up, Down, Left, Right and Space act only with no modifier.  Every other
\* variant goes to the editing buffer: it is applied to the query text,
\* leaves the checked set alone and moves the cursor only by the clamp of
\* a changed filter.
C17_DispatchRespectsModifiersAndVim ==
    [][ \A key \in Keys :
          KeyRead(key) =>
             /\ IsForwarded(key) =>
                   /\ input' = input_handle_key(input, key)
                   /\ checked' = checked
                   /\ input' = input =>
                         UNCHANGED << cursor_index, filtered_options >>
                   /\ cursor_index' # cursor_index =>
                         /\ cursor_index >= Len(filtered_options')
                         /\ cursor_index' = Len(filtered_options') - 1
             /\ key = LeftKey => checked' = {}
             /\ key = RightKey => checked' = Range(filtered_options)
             /\ (IsMoveUp(key) \/ IsMoveDown(key)) =>
                   UNCHANGED << input, checked, filtered_options >>
             /\ IsMoveUp(key) =>
                   cursor_index' = (IF cursor_index > 0 THEN cursor_index - 1
                                    ELSE IF Len(filtered_options) > 0
                                    THEN Len(filtered_options) - 1 ELSE 0)
             /\ IsMoveDown(key) =>
                   cursor_index' = (IF cursor_index + 1 < Len(filtered_options)
                                    THEN cursor_index + 1 ELSE 0) ]_vars

\* With vim navigation off, an unmodified j went into the query text and
\* the cursor stayed off the first row.
C17_Witness ==
    /\ pc = "render"
    /\ ~mso.vim_mode
    /\ last_key = Key("Char", "j", "NONE")
    /\ input = <<"j">>
    /\ cursor_index > 0

\* The validator accepts the answer a Submit would build now.
SubmitAccepted ==
    IsSome(mso.validator) =>
        validator(Unwrap(mso.validator),
                  selected_options(mso.options, checked))[1] = "Ok"

\* C18: the error is unset at session start, is set only by a rejected
\* Submit, which replaces it with the newest message, and is cleared by no
\* key, so every frame rendered after a rejection carries an error message.
C18_ErrorStickyAndSingle ==
    /\ []((pc = "render" /\ last_call = "none") => error = None)
    /\ []((pc = "render" /\ IsSome(error)) =>
             /\ Len(error) = 1
             /\ \E k \in 2..(Len(frame_calls) - 1) :
                   frame_calls[k] = "render_error_message")
    /\ [][ (Alive /\ pc' # "done") =>
              /\ error' # error =>
                    /\ KeyRead(SubmitKey)
                    /\ ~SubmitAccepted
                    /\ error' = Some(validator(Unwrap(mso.validator),
                                   selected_options(mso.options, checked))[2])
              /\ (KeyRead(SubmitKey) /\ ~SubmitAccepted) =>
                    error' = Some(validator(Unwrap(mso.validator),
                                   selected_options(mso.options, checked))[2])
              /\ IsSome(error) => IsSome(error') ]_vars

\* The message of a "too many" rejection still pending after select-none
\* emptied the checked set.
C18_Witness ==
    /\ pc = "render"
    /\ last_key = LeftKey
    /\ checked = {}
    /\ error = Some("too many options selected")

\* C19: a complete frame is rendered before every key read, exactly one
\* key is read and applied between two renders, and a key ends the editing
\* only when it is Cancel or a Submit that passes validation.
C19_RenderReadApplyAlternate ==
    /\ [](pc = "read_key" => last_call = "frame_finish")
    /\ [](pc = "render" => last_call \in {"none", "read_key"})
    /\ [][ /\ pc' = "read_key" =>
                 /\ pc = "render"
                 /\ last_call' = "frame_finish"
                 /\ UNCHANGED prompt_fields
           /\ pc' = "render" => (pc = "new" \/ \E key \in Keys : KeyRead(key))
           /\ \A key \in Keys :
                 KeyRead(key) =>
                    /\ last_call' = "read_key"
                    /\ pc' = (IF key = CancelKey THEN "done"
                              ELSE IF key = SubmitKey /\ SubmitAccepted
                              THEN "finish"
                              ELSE "render")
           /\ pc' = "finish" => (KeyRead(SubmitKey) /\ SubmitAccepted)
           /\ (pc \in {"render", "read_key"} /\ pc' = "done"
               /\ outcome' # "IoError") => KeyRead(CancelKey) ]_vars

\* A frame rendered, and the next key awaited, after a rejected Submit and
\* with a filter typed.
C19_Witness ==
    /\ pc = "read_key"
    /\ last_call = "frame_finish"
    /\ IsSome(error)
    /\ input # <<>>
    /\ checked # {}

\* C20: a failure of any frame step, of read-key or of finish ends the run
\* with that failure: no backend call follows and no result is returned.
C20_BackendFailureIsFatal ==
    /\ [](outcome = "IoError" =>
             /\ pc = "done"
             /\ result = None
             /\ last_call # "none"
             /\ last_call # "finish_prompt" =>
                   (finish_calls = 0 /\ finished_with = None))
    /\ [][ outcome = "IoError" =>
              UNCHANGED << last_call, finish_calls, finished_with, outcome,
                           result >> ]_vars

\* The run ended by a failure in the middle of a frame that shows an error.
C20_Witness ==
    /\ pc = "done"
    /\ outcome = "IoError"
    /\ last_call = "render_error_message"
    /\ finish_calls = 0
    /\ result = None

====
